---- MODULE Spec2Model ----
(***************************************************************************)
(* A model of the movement-particles core: the particle record and its     *)
(* integration step, the emitter with its fractional accumulator, the      *)
(* particle system's per-frame update, the outline geometry and the        *)
(* spatial hash grid.                                                      *)
(*                                                                         *)
(* f32 values are modelled as fixed-point numbers: the integer n stands    *)
(* for the real n / FIX.  Sums and differences are exact; products and     *)
(* quotients are rounded to the nearest representable value, as the f32    *)
(* operations round theirs.  The inputs the specifications draw are        *)
(* chosen so that the short runs the exactness claims are about incur no   *)
(* rounding at all.  The one difference the model rounds is `life -= dt`:  *)
(* an f32 keeps 24 significant bits, so a dt that is small enough next to  *)
(* the life is lost in the subtraction.                                    *)
(***************************************************************************)
EXTENDS Integers, Sequences, FiniteSets, TLC

VARIABLES
  particles,        \* ParticleSystem.particles
  emitters,         \* ParticleSystem.emitters
  max_particles,    \* ParticleSystem.config.max_particles
  rng,              \* the position of rand::thread_rng() in its stream
  frame,            \* the number of calls made so far
  last,             \* the arguments and the results of the latest update call
  start,            \* the particle a ballistic run started from
  outline,          \* the Outline built by Outline::from_points, or None
  answers,          \* what Outline::contains returned, per queried point
  cell_size,        \* SpatialGrid.cell_size
  cells,            \* SpatialGrid.cells
  inserted,         \* the (index, position) pairs inserted since the last clear
  found,            \* the arguments and the result of the latest query_nearby
  instance_buffer,  \* ParticleRenderer.instance_buffer, as 32-bit words
  drawn,            \* the per-instance attributes the latest draw call fetched
  supplied,         \* the argument of the latest update_outline or from_points call
  twin,             \* a second ParticleSystem, driven by the same calls
  evaluated         \* the arguments and the results of the latest calculate_at

sysVars == <<particles, emitters, max_particles, rng, frame, last>>
outlineVars == <<outline, answers>>
gridVars == <<cell_size, cells, inserted, found>>
renderVars == <<instance_buffer, drawn>>
auxVars == <<supplied, twin, evaluated>>
vars == <<sysVars, start, auxVars, outlineVars, gridVars, renderVars>>

----------------------------------------------------------------------------
(* Fixed-point arithmetic standing for f32 *)

FIX == 100 * 100

\* the f32 literal n (an integer) and the literal n/d, rounded to nearest
F(n) == n * FIX
Lit(n, d) == (2 * n * FIX + d) \div (2 * d)

Abs(a) == IF a < 0 THEN 0 - a ELSE a

\* a * b for a, b >= 0, rounded to nearest; both factors are split so that
\* no intermediate product leaves the 32-bit range
FMulMag(a, b) ==
  LET qa == a \div FIX
      ra == a % FIX
      qb == b \div FIX
      rb == b % FIX
  IN  qa * qb * FIX + qa * rb + ra * qb + ((ra * rb + FIX \div 2) \div FIX)

\* a * b: f32 is sign-magnitude, so the rounding is that of the magnitudes
FMul(a, b) ==
  IF (a < 0) = (b < 0) THEN FMulMag(Abs(a), Abs(b)) ELSE 0 - FMulMag(Abs(a), Abs(b))

\* the k decimal digits of r / b after the point (0 <= r < b), by long
\* division, the last one rounded to nearest
RECURSIVE FracDigits(_, _, _)
FracDigits(r, b, k) ==
  IF k = 0 THEN (IF 2 * r >= b THEN 1 ELSE 0)
  ELSE ((r * 10) \div b) * (IF k = 4 THEN 1000 ELSE IF k = 3 THEN 100 ELSE IF k = 2 THEN 10 ELSE 1)
       + FracDigits((r * 10) % b, b, k - 1)

\* a / b for a >= 0 and b > 0, rounded to nearest
FDivPos(a, b) == (a \div b) * FIX + FracDigits(a % b, b, 4)

\* a / b for b # 0, the rounding being that of the magnitudes
FDiv(a, b) ==
  IF (a < 0) = (b < 0) THEN FDivPos(Abs(a), Abs(b)) ELSE 0 - FDivPos(Abs(a), Abs(b))

\* the 24 bits of the f32 significand
SIGNIFICAND == 2 ^ 24

\* the power of two by which a magnitude m exceeds the significand
RECURSIVE Ulp(_, _)
Ulp(m, e) == IF m \div e < SIGNIFICAND THEN e ELSE Ulp(m, 2 * e)

\* n rounded to 24 significant bits, to nearest, ties to even
Round24(n) ==
  LET m == Abs(n)
      e == Ulp(m, 1)
      q == m \div e
      rem == m % e
      up == 2 * rem > e \/ (2 * rem = e /\ q % 2 = 1)
      r == (IF up THEN q + 1 ELSE q) * e
  IN  IF n < 0 THEN 0 - r ELSE r

\* a - b as f32 computes it
FSub(a, b) == Round24(a - b)

\* f32::floor, as an integer
Floor(a) == a \div FIX

\* `x as usize` of a float that holds an integer: the cast saturates at 0
AsUsize(n) == IF n < 0 THEN 0 ELSE n

----------------------------------------------------------------------------
(* glam::Vec2 *)

Vec2(x, y) == [x |-> x, y |-> y]
ZERO == Vec2(0, 0)
VAdd(a, b) == Vec2(a.x + b.x, a.y + b.y)
VSub(a, b) == Vec2(a.x - b.x, a.y - b.y)
VScale(a, s) == Vec2(FMul(a.x, s), FMul(a.y, s))
VDivS(a, s) == Vec2(FDiv(a.x, s), FDiv(a.y, s))


RECURSIVE ISqrtFrom(_, _, _)
ISqrtFrom(n, lo, hi) ==
  IF lo >= hi THEN lo
  ELSE LET mid == (lo + hi + 1) \div 2
       IN  IF mid * mid <= n THEN ISqrtFrom(n, mid, hi) ELSE ISqrtFrom(n, lo, mid - 1)

\* f32::sqrt of a fixed-point value: sqrt(n / FIX) * FIX = sqrt(n) * 100
FSqrt(n) == ISqrtFrom(n, 0, 46340) * 100

LengthSquared(a) == FMul(a.x, a.x) + FMul(a.y, a.y)
Length(a) == FSqrt(LengthSquared(a))
NormalizeOrZero(a) == IF Length(a) = 0 THEN ZERO ELSE VDivS(a, Length(a))

----------------------------------------------------------------------------
(* physics.rs: Force *)

Gravity(x, y) == [kind |-> "Gravity", g |-> Vec2(x, y)]
Wind(direction, strength) ==
  [kind |-> "Wind", direction |-> direction, strength |-> strength, turbulence |-> 0]

Attractor(position, strength, radius) ==
  [kind |-> "Attractor", position |-> position, strength |-> strength, radius |-> radius]
Repulsor(position, strength, radius) ==
  [kind |-> "Repulsor", position |-> position, strength |-> strength, radius |-> radius]

\* the arm shared by Attractor and Repulsor, diff being `*pos - position`
\* for the one and `position - *pos` for the other
InverseSquare(diff, strength, radius) ==
  LET dist_sq == LengthSquared(diff)
      radius_sq == FMul(radius, radius)
  IN  IF dist_sq < radius_sq /\ dist_sq > 0
      THEN VScale(NormalizeOrZero(diff), FDiv(strength, dist_sq + F(1)))
      ELSE ZERO

\* a calculate_at whose Repulsor arm takes the difference the Attractor
\* arm takes
CalculateAt_RepulsorAttracts(force, position) ==
  IF force.kind = "Gravity" THEN force.g
  ELSE IF force.kind = "Wind"
  THEN VAdd(VScale(NormalizeOrZero(force.direction), force.strength), ZERO)
  ELSE InverseSquare(VSub(force.position, position), force.strength, force.radius)

\* Force::calculate_at.  Wind is modelled with the turbulence 0 that
\* Force::wind sets, for which the turbulence offset is the zero vector.
CalculateAt(force, position) ==
  IF force.kind = "Gravity" THEN force.g
  ELSE IF force.kind = "Wind"
  THEN VAdd(VScale(NormalizeOrZero(force.direction), force.strength), ZERO)
  ELSE IF force.kind = "Attractor"
  THEN InverseSquare(VSub(force.position, position), force.strength, force.radius)
  ELSE InverseSquare(VSub(position, force.position), force.strength, force.radius)

----------------------------------------------------------------------------
(* particles.rs: Particle *)

ParticleNew(position, velocity, life, size, color) ==
  [position |-> position, velocity |-> velocity, life |-> life, size |-> size,
   color |-> color, mass |-> F(1), padding |-> <<0, 0>>]

DRAG == Lit(99, 100)

RECURSIVE SumAcceleration(_, _, _, _)
SumAcceleration(forces, i, pos, mass) ==
  IF i > Len(forces) THEN ZERO
  ELSE VAdd(VDivS(CalculateAt(forces[i], pos), mass),
            SumAcceleration(forces, i + 1, pos, mass))

\* an explicit Euler step: the position advances by the pre-step velocity
Particle_update_Explicit(p, dt, forces) ==
  LET pos == p.position
      acceleration == SumAcceleration(forces, 1, pos, p.mass)
      vel == VAdd(p.velocity, VScale(acceleration, dt))
  IN  [p EXCEPT !.position = VAdd(pos, VScale(p.velocity, dt)),
                !.velocity = VScale(vel, DRAG),
                !.life = FSub(p.life, dt)]

\* an integration step that forgets the drag
Particle_update_NoDrag(p, dt, forces) ==
  LET pos == p.position
      acceleration == SumAcceleration(forces, 1, pos, p.mass)
      vel == VAdd(p.velocity, VScale(acceleration, dt))
  IN  [p EXCEPT !.position = VAdd(pos, VScale(vel, dt)),
                !.velocity = vel,
                !.life = FSub(p.life, dt)]

\* Particle::update
Particle_update(p, dt, forces) ==
  LET pos == p.position
      acceleration == SumAcceleration(forces, 1, pos, p.mass)
      vel == VAdd(p.velocity, VScale(acceleration, dt))
      new_pos == VAdd(pos, VScale(vel, dt))
  IN  [p EXCEPT !.position = new_pos,
                !.velocity = VScale(vel, DRAG),
                !.life = FSub(p.life, dt)]

\* a liveness test that lets a life of exactly 0 pass
IsAliveAtZero(p) == p.life >= 0

\* Particle::is_alive
IsAlive(p) == p.life > 0

----------------------------------------------------------------------------
(* particles.rs: Emitter *)

PI_4 == Lit(7854, 10000)

EmitterNew(position) ==
  [position |-> position, rate |-> F(100), spread |-> PI_4,
   initial_velocity |-> F(50), particle_lifetime |-> F(5),
   particle_size |-> F(3), enabled |-> TRUE, accumulator |-> 0]

\* rand::thread_rng() is a seeded generator shared by every emitter of the
\* thread.  It is modelled by its position rng in a periodic stream of the
\* angles gen_range(-spread..spread) returns, each with its cosine and
\* sine: 0 and +-atan(3/4), all inside (-PI/4, PI/4).  The seed, the
\* position the stream starts at, is arbitrary.
Angles ==
  << [angle |-> 0, cos |-> F(1), sin |-> 0],
     [angle |-> Lit(6435, 10000), cos |-> Lit(4, 5), sin |-> Lit(3, 5)],
     [angle |-> 0 - Lit(6435, 10000), cos |-> Lit(4, 5), sin |-> 0 - Lit(3, 5)] >>

GenAngle(r) == Angles[(r % Len(Angles)) + 1]

\* The colour the three gen_range calls draw is never read by the core; the
\* model stores the lower end of each range.
EmitColor == <<Lit(1, 2), Lit(1, 2), Lit(4, 5), F(1)>>

\* the accumulator after `self.accumulator += dt * self.rate`
Accumulated(e, dt) == e.accumulator + FMul(dt, e.rate)

\* an emit that clears the accumulator instead of keeping the remainder
Emitter_emit_ClearAccumulator(e, dt, r) ==
  IF ~e.enabled THEN [emitter |-> e, particles |-> <<>>]
  ELSE LET count == AsUsize(Floor(Accumulated(e, dt)))
       IN  [emitter |-> [e EXCEPT !.accumulator = 0],
            particles |->
              [k \in 1..count |->
                 ParticleNew(e.position,
                             Vec2(FMul(GenAngle(r + k - 1).cos, e.initial_velocity),
                                  FMul(GenAngle(r + k - 1).sin, e.initial_velocity)),
                             e.particle_lifetime, e.particle_size, EmitColor)]]

\* Emitter::emit; r is the position of the rng when the call starts
Emitter_emit(e, dt, r) ==
  IF ~e.enabled THEN [emitter |-> e, particles |-> <<>>]
  ELSE LET count == AsUsize(Floor(Accumulated(e, dt)))
       IN  [emitter |-> [e EXCEPT !.accumulator = Accumulated(e, dt) - F(count)],
            particles |->
              [k \in 1..count |->
                 ParticleNew(e.position,
                             Vec2(FMul(GenAngle(r + k - 1).cos, e.initial_velocity),
                                  FMul(GenAngle(r + k - 1).sin, e.initial_velocity)),
                             e.particle_lifetime, e.particle_size, EmitColor)]]

----------------------------------------------------------------------------
(* particles.rs: ParticleSystem *)

DefaultMaxParticles == 10000

\* a push loop that forgets the capacity test
RECURSIVE PushEachUnchecked(_, _, _, _)
PushEachUnchecked(parts, new_particles, k, cap) ==
  IF k > Len(new_particles) THEN parts
  ELSE PushEachUnchecked(Append(parts, new_particles[k]), new_particles, k + 1, cap)

\* `if self.particles.len() < max_particles { push }` over new_particles
RECURSIVE PushEach(_, _, _, _)
PushEach(parts, new_particles, k, cap) ==
  IF k > Len(new_particles) THEN parts
  ELSE PushEach(IF Len(parts) < cap THEN Append(parts, new_particles[k]) ELSE parts,
                new_particles, k + 1, cap)

RECURSIVE SumSeq(_, _)
SumSeq(s, i) == IF i > Len(s) THEN 0 ELSE s[i] + SumSeq(s, i + 1)

\* an emit loop that hands the spawns it could not push back to the
\* emitter's accumulator, so that they are queued for a later frame
RECURSIVE EmitLoopRequeue(_, _, _, _, _, _, _)
EmitLoopRequeue(ems, i, parts, cap, dt, r, counts) ==
  IF i > Len(ems) THEN [emitters |-> ems, particles |-> parts, counts |-> counts]
  ELSE LET out == Emitter_emit(ems[i], dt, r + SumSeq(counts, 1))
           pushed == PushEach(parts, out.particles, 1, cap)
           dropped == Len(parts) + Len(out.particles) - Len(pushed)
       IN  EmitLoopRequeue(
             [ems EXCEPT ![i] = [out.emitter EXCEPT !.accumulator = @ + F(dropped)]],
             i + 1, pushed, cap, dt, r, Append(counts, Len(out.particles)))

\* `for emitter in &mut self.emitters`: each emitter emits, then its
\* particles are pushed; counts collects what each emit returned
RECURSIVE EmitLoop(_, _, _, _, _, _, _)
EmitLoop(ems, i, parts, cap, dt, r, counts) ==
  IF i > Len(ems) THEN [emitters |-> ems, particles |-> parts, counts |-> counts]
  ELSE LET out == Emitter_emit(ems[i], dt, r + SumSeq(counts, 1))
       IN  EmitLoop([ems EXCEPT ![i] = out.emitter], i + 1,
                    PushEach(parts, out.particles, 1, cap), cap, dt, r,
                    Append(counts, Len(out.particles)))

\* an update that emits before it integrates and prunes
ParticleSystem_update_EmitFirst(parts, ems, cap, dt, forces, r) ==
  LET e == EmitLoop(ems, 1, parts, cap, dt, r, <<>>)
      integrated == [i \in 1..Len(e.particles) |-> Particle_update(e.particles[i], dt, forces)]
      old == SelectSeq([i \in 1..Len(parts) |-> Particle_update(parts[i], dt, forces)], IsAlive)
  IN  [particles |-> SelectSeq(integrated, IsAlive), emitters |-> e.emitters,
       counts |-> e.counts, survivors |-> Len(old)]

\* an update whose prune keeps the dead particles instead of the live ones
ParticleSystem_update_RetainDead(parts, ems, cap, dt, forces, r) ==
  LET integrated == [i \in 1..Len(parts) |-> Particle_update(parts[i], dt, forces)]
      dead(p) == ~IsAlive(p)
      kept == SelectSeq(integrated, dead)
  IN  EmitLoop(ems, 1, kept, cap, dt, r, <<>>) @@ [survivors |-> Len(kept)]

\* ParticleSystem::update
ParticleSystem_update(parts, ems, cap, dt, forces, r) ==
  LET integrated == [i \in 1..Len(parts) |-> Particle_update(parts[i], dt, forces)]
      alive == SelectSeq(integrated, IsAlive)
  IN  EmitLoop(ems, 1, alive, cap, dt, r, <<>>) @@ [survivors |-> Len(alive)]

\* ParticleConfig::default
ParticleConfigDefault ==
  [max_particles |-> DefaultMaxParticles, spawn_rate |-> F(500), particle_lifetime |-> F(5),
   particle_size |-> F(3), gravity |-> Vec2(0, F(100)), drag_coefficient |-> Lit(99, 100)]

\* an update whose integration takes its drag factor from
\* config.drag_coefficient
System_update_ConfigDrag(sys, dt, forces, r) ==
  LET integrated ==
        [i \in 1..Len(sys.particles) |->
           [Particle_update_NoDrag(sys.particles[i], dt, forces)
              EXCEPT !.velocity = VScale(@, sys.config.drag_coefficient)]]
      out == EmitLoop(sys.emitters, 1, SelectSeq(integrated, IsAlive),
                      sys.config.max_particles, dt, r, <<>>)
  IN  [sys EXCEPT !.particles = out.particles, !.emitters = out.emitters]

\* ParticleSystem::update on a system held as one value, with its whole
\* config: particles, emitters and config.max_particles are what it reads
System_update(sys, dt, forces, r) ==
  LET out == ParticleSystem_update(sys.particles, sys.emitters, sys.config.max_particles,
                                   dt, forces, r)
  IN  [sys EXCEPT !.particles = out.particles, !.emitters = out.emitters]

----------------------------------------------------------------------------
(* collision.rs: AABB, LineSegment, Outline *)

\* Option::None
None == [none |-> TRUE]

FMin(a, b) == IF a < b THEN a ELSE b
FMax(a, b) == IF a > b THEN a ELSE b

AABBNew(min, max) == [min |-> min, max |-> max]

\* AABB::contains
AABBContains(box, point) ==
  /\ point.x >= box.min.x
  /\ point.x <= box.max.x
  /\ point.y >= box.min.y
  /\ point.y <= box.max.y

\* LineSegment::new
LineSegmentNew(seg_start, seg_end) ==
  LET direction == VSub(seg_end, seg_start)
  IN  [start |-> seg_start, end |-> seg_end,
       normal |-> NormalizeOrZero(Vec2(0 - direction.y, direction.x))]

\* the running `min = min.min(points[i])` and `max = max.max(points[i])`
RECURSIVE RunningMin(_, _, _)
RunningMin(points, i, acc) ==
  IF i > Len(points) THEN acc
  ELSE RunningMin(points, i + 1, Vec2(FMin(acc.x, points[i].x), FMin(acc.y, points[i].y)))

RECURSIVE RunningMax(_, _, _)
RunningMax(points, i, acc) ==
  IF i > Len(points) THEN acc
  ELSE RunningMax(points, i + 1, Vec2(FMax(acc.x, points[i].x), FMax(acc.y, points[i].y)))

\* a from_points that leaves the chain open: no segment from the last
\* point back to the first
FromPointsOpen(points) ==
  IF Len(points) = 0
  THEN [segments |-> <<>>, bounds |-> AABBNew(ZERO, ZERO), velocity |-> ZERO]
  ELSE [segments |->
          [i \in 1..(Len(points) - 1) |-> LineSegmentNew(points[i], points[i + 1])],
        bounds |-> AABBNew(RunningMin(points, 1, points[1]), RunningMax(points, 1, points[1])),
        velocity |-> ZERO]

\* Outline::from_points
FromPoints(points) ==
  IF Len(points) = 0
  THEN [segments |-> <<>>, bounds |-> AABBNew(ZERO, ZERO), velocity |-> ZERO]
  ELSE [segments |->
          [i \in 1..Len(points) |->
             LineSegmentNew(points[i], points[(i % Len(points)) + 1])],
        bounds |-> AABBNew(RunningMin(points, 1, points[1]), RunningMax(points, 1, points[1])),
        velocity |-> ZERO]

PARALLEL_EPS == Lit(1, 10000)

\* a ray test that lets the ray extend behind its start
RayIntersectsSegmentBackward(ray_start, ray_end, seg_start, seg_end) ==
  LET r == VSub(ray_end, ray_start)
      s == VSub(seg_end, seg_start)
      qp == VSub(seg_start, ray_start)
      r_cross_s == FMul(r.x, s.y) - FMul(r.y, s.x)
      qp_cross_r == FMul(qp.x, r.y) - FMul(qp.y, r.x)
  IN  IF Abs(r_cross_s) < PARALLEL_EPS THEN FALSE
      ELSE LET t == FDiv(FMul(qp.x, s.y) - FMul(qp.y, s.x), r_cross_s)
               u == FDiv(qp_cross_r, r_cross_s)
           IN  t <= F(1) /\ u >= 0 /\ u <= F(1)

\* Outline::ray_intersects_segment
RayIntersectsSegment(ray_start, ray_end, seg_start, seg_end) ==
  LET r == VSub(ray_end, ray_start)
      s == VSub(seg_end, seg_start)
      qp == VSub(seg_start, ray_start)
      r_cross_s == FMul(r.x, s.y) - FMul(r.y, s.x)
      qp_cross_r == FMul(qp.x, r.y) - FMul(qp.y, r.x)
  IN  IF Abs(r_cross_s) < PARALLEL_EPS THEN FALSE
      ELSE LET t == FDiv(FMul(qp.x, s.y) - FMul(qp.y, s.x), r_cross_s)
               u == FDiv(qp_cross_r, r_cross_s)
           IN  t >= 0 /\ t <= F(1) /\ u >= 0 /\ u <= F(1)

\* Outline::contains
OutlineContains(o, point) ==
  IF ~AABBContains(o.bounds, point) THEN FALSE
  ELSE LET ray_end == Vec2(o.bounds.max.x + F(1), point.y)
           intersections ==
             Cardinality({i \in 1..Len(o.segments) :
                            RayIntersectsSegment(point, ray_end,
                                                 o.segments[i].start, o.segments[i].end)})
       IN  intersections % 2 = 1

----------------------------------------------------------------------------
(* collision.rs: SpatialGrid *)

\* f32::ceil, as an integer
Ceil(a) == 0 - ((0 - a) \div FIX)

\* SpatialGrid::get_cell
GetCell(size, position) ==
  <<Floor(FDiv(position.x, size)), Floor(FDiv(position.y, size))>>

\* SpatialGrid::insert, on the map of cells
GridInsert(map, size, particle_idx, position) ==
  LET cell == GetCell(size, position)
  IN  IF cell \in DOMAIN map
      THEN [map EXCEPT ![cell] = Append(@, particle_idx)]
      ELSE map @@ (cell :> <<particle_idx>>)

\* the cells the two nested loops of query_nearby visit, in their order:
\* dy outside and dx inside, each from -cell_radius to cell_radius
VisitedCells(center, cell_radius) ==
  LET side == 2 * cell_radius + 1
  IN  [k \in 1..(side * side) |->
         <<center[1] + ((k - 1) % side) - cell_radius,
           center[2] + ((k - 1) \div side) - cell_radius>>]

\* `result.extend_from_slice(indices)` for every visited cell of the map
RECURSIVE ExtendFrom(_, _, _)
ExtendFrom(map, visited, k) ==
  IF k > Len(visited) THEN <<>> ELSE map[visited[k]] \o ExtendFrom(map, visited, k + 1)

CollectCells(map, center, cell_radius) ==
  LET occupied(cell) == cell \in DOMAIN map
  IN  ExtendFrom(map, SelectSeq(VisitedCells(center, cell_radius), occupied), 1)

\* a query whose cell radius is truncated instead of rounded up
QueryNearbyTruncated(map, size, position, radius) ==
  CollectCells(map, GetCell(size, position), Floor(FDiv(radius, size)))

\* SpatialGrid::query_nearby
QueryNearby(map, size, position, radius) ==
  CollectCells(map, GetCell(size, position), Ceil(FDiv(radius, size)))

----------------------------------------------------------------------------
(* particles.rs: the layout of Particle; particle_renderer.rs: the buffer *)

F32_BYTES == 4

\* a Particle with mass laid out before color
ParticleLayoutSwapped ==
  << <<"position", 2>>, <<"velocity", 2>>, <<"life", 1>>, <<"size", 1>>,
     <<"mass", 1>>, <<"color", 4>>, <<"padding", 2>> >>

\* #[repr(C)] struct Particle: the fields in order, each with its number of
\* f32; every field has alignment 4, so repr(C) leaves no gap between them
ParticleLayout ==
  << <<"position", 2>>, <<"velocity", 2>>, <<"life", 1>>, <<"size", 1>>,
     <<"color", 4>>, <<"mass", 1>>, <<"padding", 2>> >>

RECURSIVE WordsBefore(_, _)
WordsBefore(layout, k) == IF k <= 1 THEN 0 ELSE layout[k - 1][2] + WordsBefore(layout, k - 1)

\* std::mem::size_of::<Particle>()
SizeOfParticle == F32_BYTES * WordsBefore(ParticleLayout, Len(ParticleLayout) + 1)

\* the 32-bit words of one field of a particle
FieldWords(p, field) ==
  IF field = "position" THEN <<p.position.x, p.position.y>>
  ELSE IF field = "velocity" THEN <<p.velocity.x, p.velocity.y>>
  ELSE IF field = "life" THEN <<p.life>>
  ELSE IF field = "size" THEN <<p.size>>
  ELSE IF field = "color" THEN p.color
  ELSE IF field = "mass" THEN <<p.mass>>
  ELSE p.padding

RECURSIVE ParticleWords(_, _)
ParticleWords(p, k) ==
  IF k > Len(ParticleLayout) THEN <<>>
  ELSE FieldWords(p, ParticleLayout[k][1]) \o ParticleWords(p, k + 1)

\* bytemuck::cast_slice(particles), as 32-bit words
RECURSIVE CastSlice(_, _)
CastSlice(parts, i) ==
  IF i > Len(parts) THEN <<>> ELSE ParticleWords(parts[i], 1) \o CastSlice(parts, i + 1)

\* the instance buffer layout of ParticleRenderer::new: the stride and, per
\* shader location, the format's number of f32; vertex_attr_array! places
\* the attributes at consecutive offsets, starting at 0
ArrayStride == SizeOfParticle

InstanceAttributes ==
  << <<1, 2>>, <<2, 2>>, <<3, 1>>, <<4, 1>>, <<5, 4>>, <<6, 1>> >>

AttributeOffset(k) == F32_BYTES * WordsBefore(InstanceAttributes, k)

\* queue.write_buffer(&instance_buffer, 0, data)
WriteBuffer(buffer, data) ==
  [w \in 1..FMax(Len(buffer), Len(data)) |-> IF w <= Len(data) THEN data[w] ELSE buffer[w]]

\* what the vertex stage fetches for one instance: per attribute, the
\* words at instance * stride + offset
FetchInstance(buffer, instance) ==
  [k \in 1..Len(InstanceAttributes) |->
     [w \in 1..InstanceAttributes[k][2] |->
        buffer[((instance * ArrayStride + AttributeOffset(k)) \div F32_BYTES) + w]]]

----------------------------------------------------------------------------
(* The states of the parts a specification does not exercise *)

NoCall ==
  [dt |-> 0, forces |-> <<>>, counts |-> <<>>, pushed |-> 0, dropped |-> 0, emitted |-> 0]

\* ParticleSystem::new, but for config.max_particles
NewSystem ==
  /\ particles = <<>>
  /\ emitters = <<>>
  /\ frame = 0
  /\ last = NoCall

NoOutline == outline = None /\ answers = {}
NoGrid == cell_size = F(1) /\ cells = <<>> /\ inserted = <<>> /\ found = None
NoRenderer == instance_buffer = <<>> /\ drawn = <<>>
NoAux == supplied = None /\ twin = None /\ evaluated = None

\* ParticleSystem::update(dt, forces) on the system of the state; last
\* records the arguments of the call, what each emit returned in it, how
\* many particles it pushed, and how many spawns were dropped and how many
\* particles were emitted so far
Step(dt, forces) ==
  /\ \E r \in {ParticleSystem_update(particles, emitters, max_particles, dt, forces, rng)} :
       /\ particles' = r.particles
       /\ emitters' = r.emitters
       /\ rng' = (rng + SumSeq(r.counts, 1)) % Len(Angles)
       /\ last' = [dt |-> dt, forces |-> forces, counts |-> r.counts,
                   pushed |-> Len(r.particles) - r.survivors,
                   dropped |-> last.dropped + SumSeq(r.counts, 1)
                                 - (Len(r.particles) - r.survivors),
                   emitted |-> last.emitted + SumSeq(r.counts, 1)]
  /\ frame' = frame + 1
  /\ UNCHANGED max_particles

----------------------------------------------------------------------------
(* Spec: a particle system under any sequence of add_emitter and update *)

MaxFrames == 3
MaxEmitters == 2
SmallCap == 2

DtChoices == {0 - Lit(2, 100), 0, Lit(2, 100)}

ForceLists == {<<>>, <<Gravity(0, F(98)), Wind(Vec2(F(10), 0), F(5))>>}

\* emitters as callers configure them through the public fields
EmitterChoices ==
  { [EmitterNew(Vec2(F(100), F(100))) EXCEPT !.rate = F(100), !.particle_lifetime = Lit(4, 100)],
    [EmitterNew(Vec2(0, 0)) EXCEPT !.rate = F(25), !.particle_lifetime = 0] }

\* ParticleSystem::new, with config.max_particles set to a small capacity
Init ==
  /\ NewSystem
  /\ max_particles = SmallCap
  /\ rng \in 0..(Len(Angles) - 1)
  /\ start = None
  /\ NoAux /\ NoOutline /\ NoGrid /\ NoRenderer

\* ParticleSystem::add_emitter
AddEmitter(e) ==
  /\ Len(emitters) < MaxEmitters
  /\ emitters' = Append(emitters, e)
  /\ UNCHANGED <<particles, max_particles, rng, frame, last>>
  /\ UNCHANGED <<start, auxVars, outlineVars, gridVars, renderVars>>

\* one call of ParticleSystem::update(dt, forces)
Update(dt, forces) ==
  /\ frame < MaxFrames
  /\ Step(dt, forces)
  /\ UNCHANGED <<start, auxVars, outlineVars, gridVars, renderVars>>

Next ==
  \/ \E e \in EmitterChoices : AddEmitter(e)
  \/ \E dt \in DtChoices, forces \in ForceLists : Update(dt, forces)

Spec == Init /\ [][Next]_vars

----------------------------------------------------------------------------
(* SpecScenario: examples/native_test.rs, main *)

ScenarioFrames == 120

ScenarioForces == <<Gravity(0, F(98)), Wind(Vec2(F(10), 0), F(5))>>
ScenarioDt == Lit(1, 60)

SquarePoints ==
  <<Vec2(F(50), F(50)), Vec2(F(150), F(50)), Vec2(F(150), F(150)), Vec2(F(50), F(150))>>

\* the points main tests, and the corner the containment property names
QueryPoints == {Vec2(F(100), F(100)), Vec2(F(200), F(200)), Vec2(F(50), F(50))}

\* ParticleSystem::new() and add_emitter(Emitter::new((100, 100)))
ScenarioInit ==
  /\ particles = <<>>
  /\ emitters = <<EmitterNew(Vec2(F(100), F(100)))>>
  /\ frame = 0
  /\ last = NoCall
  /\ max_particles = DefaultMaxParticles
  /\ rng \in 0..(Len(Angles) - 1)
  /\ start = None
  /\ NoAux /\ NoOutline /\ NoGrid /\ NoRenderer

\* `for frame in 0..120 { system.update(dt, &forces) }`
ScenarioUpdate ==
  /\ frame < ScenarioFrames
  /\ Step(ScenarioDt, ScenarioForces)
  /\ UNCHANGED <<start, auxVars, outlineVars, gridVars, renderVars>>

\* `let outline = Outline::from_points(outline_points)`
ScenarioOutline ==
  /\ frame = ScenarioFrames
  /\ outline = None
  /\ outline' = FromPoints(SquarePoints)
  /\ UNCHANGED <<sysVars, start, auxVars, answers, gridVars, renderVars>>

\* `outline.contains(point)`; contains takes &self
ScenarioContains(point) ==
  /\ outline # None
  /\ answers' = answers \cup {[point |-> point, inside |-> OutlineContains(outline, point)]}
  /\ UNCHANGED <<sysVars, start, auxVars, outline, gridVars, renderVars>>

ScenarioNext ==
  \/ ScenarioUpdate
  \/ ScenarioOutline
  \/ \E point \in QueryPoints : ScenarioContains(point)

SpecScenario == ScenarioInit /\ [][ScenarioNext]_vars

----------------------------------------------------------------------------
(* Properties of the particle system, checked under Spec *)

Min(a, b) == IF a < b THEN a ELSE b

IsUpdateStep == frame' = frame + 1

\* the particles the last update pushed are the last ones of the population
Fresh == (Len(particles) - last.pushed + 1)..Len(particles)

\* what the prune of an update with these arguments leaves of the population
Survivors(dt, forces) ==
  SelectSeq([i \in 1..Len(particles) |-> Particle_update(particles[i], dt, forces)], IsAlive)

\* C1: after every update the particle count is at most config.max_particles.
CapacityInvariant == Len(particles) <= max_particles

\* C1 witness: an update filled the population and had to drop spawns.
CapacityWitness ==
  /\ Len(particles) = max_particles
  /\ SumSeq(last.counts, 1) > last.pushed

\* C2: after any update every particle of the population, the ones emitted in
\* that call included, has life > 0.
DeathInvariant == \A i \in 1..Len(particles) : particles[i].life > 0

\* p is what emitter e emits: at e's position, with a velocity of
\* magnitude initial_velocity at one of the angles, with e's lifetime and size
EmittedBy(p, e) ==
  /\ e.enabled
  /\ p.position = e.position
  /\ p.life = e.particle_lifetime
  /\ p.size = e.particle_size
  /\ p.mass = F(1)
  /\ \E k \in 1..Len(Angles) :
       p.velocity = Vec2(FMul(Angles[k].cos, e.initial_velocity),
                         FMul(Angles[k].sin, e.initial_velocity))

FreshAsEmitted ==
  \A i \in Fresh : \E j \in 1..Len(emitters) : EmittedBy(particles[i], emitters[j])

\* the particles pushed by the previous update are integrated by this one:
\* each is pruned, or is in the population with one integration step applied
FreshIntegratedNext ==
  IsUpdateStep =>
    \A i \in Fresh :
      LET q == Particle_update(particles[i], last'.dt, last'.forces)
      IN  IsAlive(q) => \E j \in 1..(Len(particles') - last'.pushed) : particles'[j] = q

\* C3: a particle pushed during an update has, when the update returns,
\* exactly the emitter's position, its emission velocity and the emitter's
\* particle_lifetime; the next update is the first to integrate it.
EmissionOrdering == [](FreshAsEmitted) /\ [][FreshIntegratedNext]_vars

\* C3 witness: an update with forces and dt # 0 pushed a particle, and a
\* particle pushed one update earlier is still in the population.
EmissionOrderingWitness ==
  /\ last.pushed > 0
  /\ last.dt > 0
  /\ last.forces # <<>>
  /\ Len(particles) > last.pushed

\* C4 as stated: every enabled emitter spawns floor(accumulator + dt*rate)
\* particles in a frame and its accumulator is reduced by that number,
\* pushed or not.
SpawnIsFloor ==
  [][IsUpdateStep =>
       \A i \in 1..Len(emitters) :
         emitters[i].enabled =>
           LET acc == emitters[i].accumulator + FMul(last'.dt, emitters[i].rate)
           IN  /\ last'.counts[i] = Floor(acc)
               /\ emitters'[i].accumulator = acc - F(Floor(acc))]_vars

\* C4 amended: spawns that do not fit are dropped and never reappear.  Every
\* enabled emitter spawns floor(accumulator + dt*rate) particles, or none
\* when that is negative; its accumulator is reduced by the full spawn
\* count whether or not the particles were pushed; and the population
\* grows by the spawns of the frame up to the capacity, no more.
DroppedNeverRequeued ==
  [][IsUpdateStep =>
       /\ \A i \in 1..Len(emitters) :
            LET acc == emitters[i].accumulator + FMul(last'.dt, emitters[i].rate)
                n == IF Floor(acc) < 0 THEN 0 ELSE Floor(acc)
            IN  IF emitters[i].enabled
                THEN /\ last'.counts[i] = n
                     /\ emitters'[i].accumulator = acc - F(n)
                ELSE /\ last'.counts[i] = 0
                     /\ emitters'[i] = emitters[i]
       /\ Len(particles') =
            Min(Len(Survivors(last'.dt, last'.forces)) + SumSeq(last'.counts, 1),
                IF Len(Survivors(last'.dt, last'.forces)) > max_particles
                THEN Len(Survivors(last'.dt, last'.forces)) ELSE max_particles)]_vars

\* C4 witness: an update dropped spawns, and a later update, with room
\* again, pushed spawns of its own.
DroppedWitness ==
  /\ last.dropped > SumSeq(last.counts, 1) - last.pushed
  /\ last.pushed > 0

\* the particles of the population whose life exceeds dt, in order
Outliving(dt) == LET outlives(p) == p.life - dt > 0 IN SelectSeq(particles, outlives)

\* C12: a particle present at the start of update(dt, forces) with life L is
\* in the population when the call returns if and only if L - dt > 0, a life
\* that reaches exactly 0 being removed in that call; the survivors have
\* life L - dt, and no particle with L - dt > 0 is removed.
IntegrateThenCheck ==
  [][IsUpdateStep =>
       /\ Len(particles') - last'.pushed = Len(Outliving(last'.dt))
       /\ \A i \in 1..Len(Outliving(last'.dt)) :
            particles'[i].life = Outliving(last'.dt)[i].life - last'.dt]_vars

\* C12 witness: every emitter gives its particles a life of two frames, a
\* particle has been removed, which in these few frames means that its life
\* reached exactly 0, in the latest update, whose dt was positive.
RemovedAtZero ==
  /\ \A j \in 1..Len(emitters) : emitters[j].particle_lifetime = Lit(4, 100)
  /\ last.emitted - last.dropped > Len(particles)
  /\ last.dt > 0
  /\ frame = 3

----------------------------------------------------------------------------
(* Properties of the native test scenario, checked under SpecScenario *)

\* C5: in the scenario (one default emitter at (100,100), gravity and wind,
\* 120 updates at dt = 1/60) the particle count never decreases from one
\* update to the next and never exceeds max_particles.
ScenarioCountMonotone ==
  [](Len(particles) <= max_particles) /\ [][Len(particles') >= Len(particles)]_vars

\* C5 witness: the 120 updates are done and the population has grown.
ScenarioDone == frame = ScenarioFrames /\ Len(particles) > 100

\* C7: for the outline of the square (50,50),(150,50),(150,150),(50,150),
\* contains((100,100)) is true, contains((200,200)) is false, and every
\* queried point, (50,50) included, gets one answer however often it is asked.
SquareContainment ==
  /\ \A a \in answers :
       /\ a.point = Vec2(F(100), F(100)) => a.inside
       /\ a.point = Vec2(F(200), F(200)) => ~a.inside
       /\ \A b \in answers : a.point = b.point => a.inside = b.inside
  /\ outline # None => outline = FromPoints(SquarePoints)

\* C7 witness: all three points have been queried.
SquareQueried == {a.point : a \in answers} = QueryPoints

----------------------------------------------------------------------------
(* SpecGrid: a SpatialGrid under insert, clear and query_nearby *)

MaxInserts == 2

CellSizes == {F(10), Lit(5, 2)}

\* positions with negative coordinates and on cell boundaries
GridPositions ==
  { Vec2(0, 0), Vec2(F(10), F(10)), Vec2(0 - F(5), 0 - F(5)), Vec2(0 - F(10), 0),
    Vec2(Lit(25, 2), Lit(15, 2)), Vec2(F(20), 0 - Lit(1, 100)) }

GridRadii == {0, F(5), Lit(25, 2)}

\* SpatialGrid::new(width, height, cell_size)
GridInit ==
  /\ cell_size \in CellSizes
  /\ cells = <<>>
  /\ inserted = <<>>
  /\ found = None
  /\ NewSystem /\ max_particles = DefaultMaxParticles /\ rng = 0
  /\ start = None
  /\ NoAux /\ NoOutline /\ NoRenderer

\* SpatialGrid::insert(particle_idx, position), for the next particle index
Insert(position) ==
  /\ Len(inserted) < MaxInserts
  /\ cells' = GridInsert(cells, cell_size, Len(inserted), position)
  /\ inserted' = Append(inserted, [index |-> Len(inserted), position |-> position])
  /\ found' = None
  /\ UNCHANGED <<cell_size, sysVars, start, auxVars, outlineVars, renderVars>>

\* SpatialGrid::clear
Clear ==
  /\ cells' = <<>>
  /\ inserted' = <<>>
  /\ found' = None
  /\ UNCHANGED <<cell_size, sysVars, start, auxVars, outlineVars, renderVars>>

\* SpatialGrid::query_nearby(position, radius)
Query(position, radius) ==
  /\ found' = [position |-> position, radius |-> radius,
               result |-> QueryNearby(cells, cell_size, position, radius)]
  /\ UNCHANGED <<cell_size, cells, inserted, sysVars, start, auxVars, outlineVars, renderVars>>

GridNext ==
  \/ \E position \in GridPositions : Insert(position)
  \/ Clear
  \/ \E position \in GridPositions, radius \in GridRadii : Query(position, radius)

SpecGrid == GridInit /\ [][GridNext]_vars

----------------------------------------------------------------------------
(* SpecEmitter: one enabled emitter, emit(dt) called with a constant dt *)

MaxCalls == 5

RateChoices == {0, Lit(25, 2), F(30), F(100), F(125)}
EmitDtChoices == {0, Lit(2, 100), Lit(5, 100), Lit(1, 10)}

\* Emitter::new with a rate; last.dt holds the dt of every call
EmitterInit ==
  /\ \E rate \in RateChoices : emitters = <<[EmitterNew(ZERO) EXCEPT !.rate = rate]>>
  /\ \E dt \in EmitDtChoices : last = [NoCall EXCEPT !.dt = dt]
  /\ particles = <<>>
  /\ frame = 0
  /\ max_particles = DefaultMaxParticles
  /\ rng \in 0..(Len(Angles) - 1)
  /\ start = None
  /\ NoAux /\ NoOutline /\ NoGrid /\ NoRenderer

\* emitters[0].emit(dt)
EmitCall ==
  /\ frame < MaxCalls
  /\ \E out \in {Emitter_emit(emitters[1], last.dt, rng)} :
       /\ emitters' = <<out.emitter>>
       /\ rng' = (rng + Len(out.particles)) % Len(Angles)
       /\ last' = [last EXCEPT !.counts = <<Len(out.particles)>>,
                               !.emitted = @ + Len(out.particles)]
  /\ frame' = frame + 1
  /\ UNCHANGED <<particles, max_particles, start, auxVars, outlineVars, gridVars, renderVars>>

SpecEmitter == EmitterInit /\ [][EmitCall]_vars

----------------------------------------------------------------------------
(* SpecBallistic: one particle, update(dt, &[]) called with a constant dt *)

MaxSteps == 3

VelocityChoices == {0, F(10000), 0 - F(20000)}
MassChoices == {Lit(1, 2), F(1), F(2)}
LifeChoices == {F(5), Lit(5, 100)}
BallisticDtChoices == {0, Lit(2, 100), Lit(1, 10)}
PositionChoices == {ZERO, Vec2(F(100), 0 - F(100))}

\* a particle with any velocity, life, mass and position; start keeps it
BallisticInit ==
  /\ \E vx \in VelocityChoices, vy \in VelocityChoices, life \in LifeChoices,
        mass \in MassChoices, position \in PositionChoices :
       particles = <<[ParticleNew(position, Vec2(vx, vy), life, F(3), EmitColor)
                        EXCEPT !.mass = mass]>>
  /\ start = particles[1]
  /\ \E dt \in BallisticDtChoices : last = [NoCall EXCEPT !.dt = dt]
  /\ emitters = <<>>
  /\ frame = 0
  /\ max_particles = DefaultMaxParticles
  /\ rng = 0
  /\ NoAux /\ NoOutline /\ NoGrid /\ NoRenderer

\* particle.update(dt, &[])
BallisticStep ==
  /\ frame < MaxSteps
  /\ particles' = <<Particle_update(particles[1], last.dt, <<>>)>>
  /\ frame' = frame + 1
  /\ UNCHANGED <<emitters, max_particles, rng, last, start, auxVars, outlineVars, gridVars, renderVars>>

SpecBallistic == BallisticInit /\ [][BallisticStep]_vars

----------------------------------------------------------------------------
(* SpecRender: a particle system whose particles are uploaded and drawn *)

Zeros(n) == [w \in 1..n |-> 0]

\* ParticleSystem::new with an emitter, and ParticleRenderer::new, whose
\* instance buffer holds size_of::<Particle>() * max_particles bytes
RenderInit ==
  /\ particles = <<>>
  /\ \E e \in EmitterChoices : emitters = <<e>>
  /\ frame = 0
  /\ last = NoCall
  /\ max_particles = SmallCap
  /\ rng \in 0..(Len(Angles) - 1)
  /\ start = None
  /\ instance_buffer = Zeros((SizeOfParticle * max_particles) \div F32_BYTES)
  /\ drawn = <<>>
  /\ NoAux /\ NoOutline /\ NoGrid

\* App::update: ParticleSystem::update(dt, forces)
RenderUpdate(dt, forces) ==
  /\ frame < MaxFrames
  /\ Step(dt, forces)
  /\ UNCHANGED <<start, auxVars, outlineVars, gridVars, renderVars>>

\* ParticleRenderer::render(particles): the particles are written to the
\* instance buffer unless there are none, and particles.len() instances drawn
Render ==
  /\ instance_buffer' =
       IF Len(particles) = 0 THEN instance_buffer
       ELSE WriteBuffer(instance_buffer, CastSlice(particles, 1))
  /\ drawn' = [i \in 1..Len(particles) |-> FetchInstance(instance_buffer', i - 1)]
  /\ UNCHANGED <<sysVars, start, auxVars, outlineVars, gridVars>>

RenderNext ==
  \/ \E dt \in DtChoices, forces \in ForceLists : RenderUpdate(dt, forces)
  \/ Render

SpecRender == RenderInit /\ [][RenderNext]_vars

----------------------------------------------------------------------------
(* Properties of the spatial grid, checked under SpecGrid *)

\* the Euclidean distance of a and b is at most radius (radius >= 0)
WithinDistance(a, b, radius) ==
  FMul(a.x - b.x, a.x - b.x) + FMul(a.y - b.y, a.y - b.y) <= FMul(radius, radius)

Range(seq) == {seq[k] : k \in 1..Len(seq)}

\* C6: every index inserted since the last clear at a position within
\* distance radius of the query position is in the result of query_nearby.
NoFalseNegatives ==
  found # None =>
    \A k \in 1..Len(inserted) :
      WithinDistance(inserted[k].position, found.position, found.radius)
        => inserted[k].index \in Range(found.result)

\* C6 witness: a query found an index inserted at a position with a
\* negative coordinate, within the radius but in another cell than the
\* query position's.
NeighbourCellFound ==
  /\ found # None
  /\ \E k \in 1..Len(inserted) :
       /\ WithinDistance(inserted[k].position, found.position, found.radius)
       /\ inserted[k].position.x < 0
       /\ GetCell(cell_size, inserted[k].position) # GetCell(cell_size, found.position)
       /\ inserted[k].index \in Range(found.result)

----------------------------------------------------------------------------
(* Properties of the particle layout, checked under SpecRender *)

\* the attributes of particle p in the order of the shader locations 1..6:
\* position, velocity, life, size, color, mass
ParticleAttributes(p) ==
  << <<p.position.x, p.position.y>>, <<p.velocity.x, p.velocity.y>>, <<p.life>>,
     <<p.size>>, p.color, <<p.mass>> >>

\* the stride is the size of the record, and with it the attributes a draw
\* fetches for every instance are those of the particle at that index
StrideContract ==
  /\ [](ArrayStride = SizeOfParticle)
  /\ [][drawn' # drawn =>
          drawn' = [i \in 1..Len(particles) |-> ParticleAttributes(particles[i])]]_vars

\* C8: the size of the Particle record is a multiple of 16 bytes and is the
\* instance stride, and with it the attributes the draw fetches for every
\* instance are the position, velocity, life, size, color and mass of the
\* particle at that index.
LayoutContract == [](SizeOfParticle % 16 = 0) /\ StrideContract

\* two particles that differ were uploaded and drawn
TwoInstancesDrawn ==
  /\ Len(drawn) = 2
  /\ drawn[1] # drawn[2]
  /\ drawn[2] = ParticleAttributes(particles[2])

----------------------------------------------------------------------------
(* Properties of the emitter, checked under SpecEmitter *)

\* C9: with rate >= 0, constant dt >= 0 and an accumulator that starts at 0,
\* the accumulator is in [0, 1) after every emit, and the particles
\* returned by the first n calls number floor(n * dt * rate).
FractionalAccumulator ==
  /\ emitters[1].accumulator >= 0
  /\ emitters[1].accumulator < F(1)
  /\ last.emitted = Floor(frame * FMul(last.dt, emitters[1].rate))

\* C9 witness: a rate of less than one particle per call has produced
\* particles, and a remainder is carried.
FractionCarried ==
  /\ FMul(last.dt, emitters[1].rate) < F(1)
  /\ last.emitted > 0
  /\ emitters[1].accumulator > 0

----------------------------------------------------------------------------
(* Properties of ballistic motion, checked under SpecBallistic *)

RECURSIVE Pow(_, _)
Pow(b, n) == IF n = 0 THEN 1 ELSE b * Pow(b, n - 1)

\* v * 0.99^n, for a v whose product is representable exactly
Decayed(v, n) == (v \div Pow(100, n)) * Pow(99, n)

\* C10: after n updates with no forces and the same dt the velocity is
\* v0 * 0.99^n in each component and the life is life0 - n * dt, whatever
\* the mass and the position.
BallisticMotion ==
  /\ start.velocity.x % Pow(100, frame) = 0
  /\ start.velocity.y % Pow(100, frame) = 0
  /\ particles[1].velocity.x = Decayed(start.velocity.x, frame)
  /\ particles[1].velocity.y = Decayed(start.velocity.y, frame)
  /\ particles[1].life = start.life - frame * last.dt

\* C10 witness: three updates of a moving particle whose mass is not 1 and
\* that does not start at the origin.
BallisticThreeSteps ==
  /\ frame = 3
  /\ start.velocity.x # 0
  /\ start.mass # F(1)
  /\ start.position # ZERO
  /\ last.dt > 0

----------------------------------------------------------------------------
(* SpecBridge: wasm-bridge App under update_outline *)

MaxFloats == 8

BridgeCoordinates == {0, F(10), 0 - F(5)}

\* the arrays the host passes: three coordinates of any value, continued
\* along a fixed polyline, cut after any number of floats up to MaxFloats,
\* odd numbers included
TrackedTail == <<F(10), 0, F(10), F(10), 0, F(10), F(5), F(20)>>

BridgeArrays ==
  { SubSeq(head \o TrackedTail, 1, n) :
      head \in [1..3 -> BridgeCoordinates], n \in 0..MaxFloats }

\* `points.chunks_exact(2).map(|chunk| Vec2::new(chunk[0], chunk[1]))`: the
\* pairs of the array; a trailing single float is left out
ChunksExact2(points) ==
  [k \in 1..(Len(points) \div 2) |-> Vec2(points[2 * k - 1], points[2 * k])]

\* App::update_outline(points), points being the &[f32] the host passes:
\* the value self.outline holds when the call returns
App_update_outline(points) ==
  IF Len(points) < 4 THEN None ELSE FromPoints(ChunksExact2(points))

\* App::new: no outline yet
BridgeInit ==
  /\ outline = None
  /\ answers = {}
  /\ supplied = None
  /\ twin = None /\ evaluated = None
  /\ NewSystem /\ max_particles = DefaultMaxParticles /\ rng = 0
  /\ start = None
  /\ NoGrid /\ NoRenderer

UpdateOutline(points) ==
  /\ outline' = App_update_outline(points)
  /\ supplied' = [points |-> points]
  /\ UNCHANGED <<sysVars, start, twin, evaluated, answers, gridVars, renderVars>>

BridgeNext ==
  \E points \in BridgeArrays : UpdateOutline(points)

SpecBridge == BridgeInit /\ [][BridgeNext]_vars

(* Properties of the bridge, checked under SpecBridge *)

\* C11: whenever the array passed to update_outline encodes fewer than 4
\* points (x, y pairs), no outline is stored when the call returns; an
\* Outline is stored only when at least 4 points were supplied.
OutlineNeedsFourPoints ==
  supplied # None =>
    /\ (Len(supplied.points) \div 2 < 4 => outline = None)
    /\ (outline # None => Len(supplied.points) \div 2 >= 4)

\* an outline was stored for an array of three points
ThreePointOutlineStored ==
  /\ supplied # None
  /\ Len(supplied.points) = 6
  /\ outline # None
  /\ Len(outline.segments) = 3

----------------------------------------------------------------------------
(* SpecForce: an Attractor and a Repulsor with the same anchor, strength *)
(* and radius, evaluated at the same position                            *)

ForceAnchors == {ZERO, Vec2(F(100), 0 - F(50))}
ForceStrengths == {F(26), F(52), 0, 0 - F(26)}
ForceRadii == {0, F(5), F(10), 0 - F(10)}

\* where the position lies, seen from the anchor
ForceOffsets ==
  { ZERO, Vec2(F(3), F(4)), Vec2(0 - F(3), 0 - F(4)), Vec2(0, F(2)), Vec2(F(4), 0 - F(3)),
    Vec2(F(6), F(8)), Vec2(0 - F(5), 0), Vec2(F(30), F(40)) }

ForceInit ==
  /\ evaluated = None
  /\ supplied = None /\ twin = None
  /\ NewSystem /\ max_particles = DefaultMaxParticles /\ rng = 0
  /\ start = None
  /\ NoOutline /\ NoGrid /\ NoRenderer

\* Force::attractor(anchor, strength, radius).calculate_at(position) and
\* Force::repulsor(anchor, strength, radius).calculate_at(position)
Evaluate(anchor, strength, radius, position) ==
  /\ evaluated' =
       [anchor |-> anchor, strength |-> strength, radius |-> radius, position |-> position,
        attractor |-> CalculateAt(Attractor(anchor, strength, radius), position),
        repulsor |-> CalculateAt(Repulsor(anchor, strength, radius), position)]
  /\ UNCHANGED <<sysVars, start, supplied, twin, outlineVars, gridVars, renderVars>>

ForceNext ==
  \E anchor \in ForceAnchors, strength \in ForceStrengths, radius \in ForceRadii,
     offset \in ForceOffsets :
    Evaluate(anchor, strength, radius, VAdd(anchor, offset))

SpecForce == ForceInit /\ [][ForceNext]_vars

(* Properties of the force fields, checked under SpecForce *)

VNeg(a) == Vec2(0 - a.x, 0 - a.y)

\* v is a positive multiple of d
PointsAlong(v, d) ==
  /\ FMul(v.x, d.y) = FMul(v.y, d.x)
  /\ FMul(v.x, d.x) + FMul(v.y, d.y) > 0

\* the position is at distance >= radius from the anchor
AtOrBeyond(radius) ==
  LET d == VSub(evaluated.anchor, evaluated.position)
  IN  radius < 0 \/ FMul(d.x, d.x) + FMul(d.y, d.y) >= FMul(radius, radius)

\* C16 as stated: the result is zero at the anchor and at distance >=
\* radius; otherwise the Attractor's points toward the anchor, the
\* Repulsor's away from it, and the Repulsor's is the negation of the
\* Attractor's.
FieldsAsStated ==
  evaluated # None =>
    LET d == VSub(evaluated.anchor, evaluated.position)
    IN  IF d = ZERO \/ AtOrBeyond(evaluated.radius)
        THEN evaluated.attractor = ZERO /\ evaluated.repulsor = ZERO
        ELSE /\ PointsAlong(evaluated.attractor, d)
             /\ PointsAlong(evaluated.repulsor, VNeg(d))
             /\ evaluated.repulsor = VNeg(evaluated.attractor)

\* C16 amended: the result is zero at the anchor and at distance >=
\* |radius|; otherwise the Attractor's points toward the anchor when the
\* strength is positive, away from it when the strength is negative, and
\* is zero when the strength is zero; the Repulsor's is always the
\* negation of the Attractor's.
FieldsMirror ==
  evaluated # None =>
    LET d == VSub(evaluated.anchor, evaluated.position)
    IN  /\ evaluated.repulsor = VNeg(evaluated.attractor)
        /\ IF d = ZERO \/ AtOrBeyond(Abs(evaluated.radius)) \/ evaluated.strength = 0
           THEN evaluated.attractor = ZERO
           ELSE IF evaluated.strength > 0
           THEN PointsAlong(evaluated.attractor, d)
           ELSE PointsAlong(evaluated.attractor, VNeg(d))

\* C16 witness: inside a radius given as a negative number, a field of
\* negative strength is not zero.
NegativeFieldEvaluated ==
  /\ evaluated # None
  /\ evaluated.radius < 0
  /\ evaluated.strength < 0
  /\ evaluated.attractor # ZERO
  /\ evaluated.repulsor # ZERO

----------------------------------------------------------------------------
(* SpecIntegrate: one particle, update(dt, forces) called with the same dt *)
(* and forces, position-dependent forces included                         *)

IntegrateForces ==
  { <<Gravity(0, F(98)), Wind(Vec2(F(10), 0), F(5))>>,
    <<Attractor(Vec2(F(3), F(4)), F(26), F(100))>>,
    <<Gravity(F(2), 0), Repulsor(Vec2(F(3), F(4)), F(52), F(100))>> }

IntegrateVelocities == {ZERO, Vec2(F(10), 0 - F(20))}
IntegrateDts == {Lit(1, 10), Lit(1, 2)}

\* masses by which every force divides without rounding, so that the sum
\* of the quotients is the quotient of the sum
IntegrateMasses == {F(1), Lit(1, 2), Lit(1, 4)}

\* a particle with any velocity and mass; start holds the particle as it
\* was before the latest update
IntegrateInit ==
  /\ \E velocity \in IntegrateVelocities, mass \in IntegrateMasses, position \in PositionChoices :
       particles = <<[ParticleNew(position, velocity, F(5), F(3), EmitColor)
                        EXCEPT !.mass = mass]>>
  /\ start = None
  /\ \E dt \in IntegrateDts, forces \in IntegrateForces :
       last = [NoCall EXCEPT !.dt = dt, !.forces = forces]
  /\ emitters = <<>>
  /\ frame = 0
  /\ max_particles = DefaultMaxParticles
  /\ rng = 0
  /\ NoAux /\ NoOutline /\ NoGrid /\ NoRenderer

\* particle.update(dt, forces)
IntegrateStep ==
  /\ frame < MaxSteps
  /\ start' = particles[1]
  /\ particles' = <<Particle_update(particles[1], last.dt, last.forces)>>
  /\ frame' = frame + 1
  /\ UNCHANGED <<emitters, max_particles, rng, last, auxVars, outlineVars, gridVars, renderVars>>

SpecIntegrate == IntegrateInit /\ [][IntegrateStep]_vars

(* Properties of the integration step, checked under SpecIntegrate *)

RECURSIVE SumForces(_, _, _)
SumForces(forces, i, pos) ==
  IF i > Len(forces) THEN ZERO
  ELSE VAdd(CalculateAt(forces[i], pos), SumForces(forces, i + 1, pos))

\* the sum of the forces at the position of particle p, over its mass
AccelerationAt(p) == VDivS(SumForces(last.forces, 1, p.position), p.mass)

\* C13: with a the sum of the forces at the pre-step position over the mass,
\* an update moves the particle to pos + (v + a*dt)*dt, the velocity used
\* being the updated one before drag, and leaves it the velocity
\* 0.99 * (v + a*dt).
SemiImplicitEuler ==
  frame > 0 =>
    LET v == VAdd(start.velocity, VScale(AccelerationAt(start), last.dt))
    IN  /\ particles[1].position = VAdd(start.position, VScale(v, last.dt))
        /\ particles[1].velocity = VScale(v, Lit(99, 100))

\* C13 witness: a second update of a moving particle whose mass is not 1,
\* under a force that depends on the position and is not zero there.
SecondStepInField ==
  /\ frame = 2
  /\ start.velocity # ZERO
  /\ start.mass # F(1)
  /\ Len(last.forces) = 2
  /\ last.forces[2].kind = "Repulsor"
  /\ CalculateAt(last.forces[2], start.position) # ZERO
  /\ CalculateAt(last.forces[2], start.position) # CalculateAt(last.forces[2], particles[1].position)

----------------------------------------------------------------------------
(* SpecOutline: an Outline built by from_points and queried with contains *)

MaxPoints == 2

\* any points, repeated and collinear ones included
LoosePoints == {Vec2(0, 0), Vec2(F(10), 0), Vec2(0 - F(5), F(20))}

\* convex polygons with integer coordinates, in both winding orders
ConvexPolygons ==
  { <<Vec2(0 - F(10), 0 - F(10)), Vec2(F(10), 0 - F(10)), Vec2(F(10), F(10)), Vec2(0 - F(10), F(10))>>,
    <<Vec2(0 - F(10), F(10)), Vec2(F(10), F(10)), Vec2(F(10), 0 - F(10)), Vec2(0 - F(10), 0 - F(10))>>,
    <<Vec2(0, 0 - F(10)), Vec2(F(10), 0), Vec2(0, F(10)), Vec2(0 - F(10), 0)>>,
    <<Vec2(0 - F(10), 0), Vec2(0, F(10)), Vec2(F(10), 0), Vec2(0, 0 - F(10))>>,
    <<Vec2(0 - F(10), 0 - F(10)), Vec2(F(10), 0 - F(10)), Vec2(0, F(10))>>,
    <<Vec2(0, F(10)), Vec2(F(10), 0 - F(10)), Vec2(0 - F(10), 0 - F(10))>>,
    <<Vec2(0 - F(6), 0 - F(10)), Vec2(F(6), 0 - F(10)), Vec2(F(10), F(10)), Vec2(0 - F(10), F(10))>>,
    SquarePoints }

OutlineInputs ==
  ConvexPolygons \cup UNION {[1..n -> LoosePoints] : n \in 0..MaxPoints}

ContainsPoints ==
  { Vec2(0, 0), Vec2(0 - F(5), 0), Vec2(0, F(5)), Vec2(F(9), F(4)), Vec2(0 - F(9), 0 - F(10)),
    Vec2(F(100), F(100)), Vec2(F(20), F(20)) }

OutlineInit ==
  /\ outline = None
  /\ answers = {}
  /\ supplied = None
  /\ twin = None /\ evaluated = None
  /\ NewSystem /\ max_particles = DefaultMaxParticles /\ rng = 0
  /\ start = None
  /\ NoGrid /\ NoRenderer

\* `let outline = Outline::from_points(points)`
Build(points) ==
  /\ outline = None
  /\ outline' = FromPoints(points)
  /\ supplied' = [points |-> points]
  /\ UNCHANGED <<sysVars, start, twin, evaluated, answers, gridVars, renderVars>>

\* `outline.contains(point)`; contains takes &self
Contains(point) ==
  /\ outline # None
  /\ answers' = answers \cup {[point |-> point, inside |-> OutlineContains(outline, point)]}
  /\ UNCHANGED <<sysVars, start, auxVars, outline, gridVars, renderVars>>

OutlineNext ==
  \/ \E points \in OutlineInputs : Build(points)
  \/ \E point \in ContainsPoints : Contains(point)

SpecOutline == OutlineInit /\ [][OutlineNext]_vars

(* Properties of the outline, checked under SpecOutline *)

\* C14: built from N >= 1 points, the outline has N segments, segment i
\* running from point i to point (i + 1) mod N, so that the chain is closed
\* and one point gives one segment of length zero; bounds.min and
\* bounds.max are the component-wise minimum and maximum of the points,
\* and every segment endpoint lies inside bounds.
ClosedChainInBounds ==
  (outline # None /\ Len(supplied.points) >= 1) =>
    LET points == supplied.points
        N == Len(points)
        next(i) == (i % N) + 1
    IN  /\ Len(outline.segments) = N
        /\ \A i \in 1..N :
             /\ outline.segments[i].start = points[i]
             /\ outline.segments[i].end = points[next(i)]
             /\ outline.segments[i].end = outline.segments[next(i)].start
             /\ AABBContains(outline.bounds, outline.segments[i].start)
             /\ AABBContains(outline.bounds, outline.segments[i].end)
             /\ outline.bounds.min.x <= points[i].x /\ outline.bounds.min.y <= points[i].y
             /\ outline.bounds.max.x >= points[i].x /\ outline.bounds.max.y >= points[i].y
        /\ \E i \in 1..N : outline.bounds.min.x = points[i].x
        /\ \E i \in 1..N : outline.bounds.min.y = points[i].y
        /\ \E i \in 1..N : outline.bounds.max.x = points[i].x
        /\ \E i \in 1..N : outline.bounds.max.y = points[i].y

\* C14 witness: an outline of one point, whose only segment has length zero.
SinglePointOutline ==
  /\ outline # None
  /\ Len(supplied.points) = 1
  /\ Len(outline.segments) = 1
  /\ outline.segments[1].start = outline.segments[1].end

\* (b - a) x (c - a): positive when c lies to the left of the line a -> b
Cross(a, b, c) == FMul(b.x - a.x, c.y - a.y) - FMul(b.y - a.y, c.x - a.x)

\* the cross products of every edge of the polygon with the point q
EdgeSides(points, q) ==
  {Cross(points[i], points[(i % Len(points)) + 1], q) : i \in 1..Len(points)}

\* the cross products at every corner of the polygon
Turns(points) ==
  {Cross(points[i], points[(i % Len(points)) + 1], points[((i + 1) % Len(points)) + 1]) :
     i \in 1..Len(points)}

\* the points are the vertices of a convex polygon with non-zero area, in
\* either winding order
IsConvex(points) ==
  /\ Len(points) >= 3
  /\ (\A c \in Turns(points) : c > 0) \/ (\A c \in Turns(points) : c < 0)

StrictlyInside(points, q) ==
  (\A c \in EdgeSides(points, q) : c > 0) \/ (\A c \in EdgeSides(points, q) : c < 0)

StrictlyOutside(points, q) ==
  \E c \in EdgeSides(points, q), t \in Turns(points) : (c > 0 /\ t < 0) \/ (c < 0 /\ t > 0)

RECURSIVE SumPoints(_, _)
SumPoints(points, i) ==
  IF i > Len(points) THEN ZERO ELSE VAdd(points[i], SumPoints(points, i + 1))

\* C15: for an outline built from the vertices of a convex polygon with
\* non-zero area, in either winding order, every segment's normal points
\* away from the interior: its dot product with (centroid - segment.start),
\* here scaled by the number of points, is negative.
OutwardNormals ==
  (outline # None /\ IsConvex(supplied.points)) =>
    \A i \in 1..Len(outline.segments) :
      LET n == outline.segments[i].normal
          inward == VSub(SumPoints(supplied.points, 1),
                         Vec2(Len(supplied.points) * outline.segments[i].start.x,
                              Len(supplied.points) * outline.segments[i].start.y))
      IN  FMul(n.x, inward.x) + FMul(n.y, inward.y) < 0

\* C18: for an outline built from the vertices of a convex polygon with
\* integer coordinates and non-zero area, contains returns true for every
\* point strictly inside the polygon and false for every point strictly
\* outside it, also when the horizontal ray from the point passes through a
\* vertex or runs along a horizontal edge.
ContainsConvex ==
  (outline # None /\ IsConvex(supplied.points)) =>
    \A a \in answers :
      /\ StrictlyInside(supplied.points, a.point) => a.inside
      /\ StrictlyOutside(supplied.points, a.point) => ~a.inside

\* contains is right wherever the ray from the point meets no vertex
ContainsAwayFromVertices ==
  (outline # None /\ IsConvex(supplied.points)) =>
    \A a \in answers :
      (\A i \in 1..Len(supplied.points) : supplied.points[i].y # a.point.y) =>
        /\ StrictlyInside(supplied.points, a.point) => a.inside
        /\ StrictlyOutside(supplied.points, a.point) => ~a.inside

----------------------------------------------------------------------------
(* SpecTwin: two particle systems that differ in config.drag_coefficient *)
(* only, under the same add_emitter and update calls and the same draws  *)

TwinDrags == {0, Lit(1, 2)}
TwinDts == {0, Lit(2, 100)}

\* two systems made by ParticleSystem::new and given a small capacity; the
\* second one, twin, is also given another drag_coefficient
TwinInit ==
  /\ NewSystem
  /\ max_particles = SmallCap
  /\ rng \in 0..(Len(Angles) - 1)
  /\ \E drag \in TwinDrags :
       twin = [particles |-> <<>>, emitters |-> <<>>,
               config |-> [ParticleConfigDefault EXCEPT !.max_particles = SmallCap,
                                                        !.drag_coefficient = drag]]
  /\ supplied = None /\ evaluated = None
  /\ start = None
  /\ NoOutline /\ NoGrid /\ NoRenderer

\* add_emitter(e) on both systems
TwinAddEmitter(e) ==
  /\ Len(emitters) < MaxEmitters
  /\ emitters' = Append(emitters, e)
  /\ twin' = [twin EXCEPT !.emitters = Append(@, e)]
  /\ UNCHANGED <<particles, max_particles, rng, frame, last>>
  /\ UNCHANGED <<start, supplied, evaluated, outlineVars, gridVars, renderVars>>

\* update(dt, forces) on both systems, the generator of the second being
\* where the generator of the first is
TwinUpdate(dt, forces) ==
  /\ frame < MaxFrames
  /\ Step(dt, forces)
  /\ twin' = System_update(twin, dt, forces, rng)
  /\ UNCHANGED <<start, supplied, evaluated, outlineVars, gridVars, renderVars>>

TwinNext ==
  \/ \E e \in EmitterChoices : TwinAddEmitter(e)
  \/ \E dt \in TwinDts, forces \in ForceLists : TwinUpdate(dt, forces)

SpecTwin == TwinInit /\ [][TwinNext]_vars

(* Properties of the configuration, checked under SpecTwin *)

\* C17: two systems that differ in config.drag_coefficient only hold the
\* same particles and emitters after every call, and the velocity an
\* update without forces leaves a surviving particle of the second system
\* is 0.99 times the one it had.
DragCoefficientUnused ==
  /\ [](twin.particles = particles /\ twin.emitters = emitters)
  /\ [][(IsUpdateStep /\ last'.forces = <<>>) =>
          \A i \in 1..Len(Outliving(last'.dt)) :
            twin'.particles[i].velocity =
              VScale(Outliving(last'.dt)[i].velocity, Lit(99, 100))]_vars

\* C17 witness: the second system has another drag_coefficient than the
\* default, and the latest update integrated a moving particle and kept it.
TwinIntegrated ==
  /\ twin.config.drag_coefficient # ParticleConfigDefault.drag_coefficient
  /\ last.dt > 0
  /\ Len(twin.particles) > last.pushed
  /\ twin.particles[1].velocity # ZERO

----------------------------------------------------------------------------
(* SpecDrain: a population with no emitter, or a disabled one, under      *)
(* update(dt, &[]) with the same dt > 0, called again and again           *)

MaxDrained == 2
MaxDrainFrames == 4

DrainLives == {Lit(2, 100), Lit(5, 100), Lit(6, 100), Lit(1, 10)}
DrainDts == {Lit(2, 100), Lit(5, 100)}
DrainEmitters == {<<>>, <<[EmitterNew(ZERO) EXCEPT !.enabled = FALSE]>>}

\* the lives of the population and the dt of the calls: short lives under
\* the dt of a frame, and a long life under a dt that is small next to it
DrainInputs ==
  { [lives |-> lives, dt |-> dt] :
      lives \in UNION {[1..n -> DrainLives] : n \in 1..MaxDrained}, dt \in DrainDts }
  \cup { [lives |-> <<F(3000)>>, dt |-> Lit(1, 10000)] }

\* a system whose particles, made by Particle::new, are told apart by
\* their size; start keeps the population as it was
DrainInit ==
  /\ \E in \in DrainInputs, velocity \in {ZERO, Vec2(F(10), 0)} :
       /\ particles = [i \in 1..Len(in.lives) |->
                         ParticleNew(ZERO, velocity, in.lives[i], F(i), EmitColor)]
       /\ last = [NoCall EXCEPT !.dt = in.dt]
  /\ start = particles
  /\ emitters \in DrainEmitters
  /\ frame = 0
  /\ max_particles = DefaultMaxParticles
  /\ rng = 0
  /\ NoAux /\ NoOutline /\ NoGrid /\ NoRenderer

\* update(dt, &[]); frame counts the calls up to MaxDrainFrames
DrainUpdate ==
  /\ \E r \in {ParticleSystem_update(particles, emitters, max_particles, last.dt, <<>>, rng)} :
       /\ particles' = r.particles
       /\ emitters' = r.emitters
  /\ frame' = IF frame < MaxDrainFrames THEN frame + 1 ELSE frame
  /\ UNCHANGED <<max_particles, rng, last, start, auxVars, outlineVars, gridVars, renderVars>>

\* update can always be called again
SpecDrain == DrainInit /\ [][DrainUpdate]_vars /\ WF_vars(DrainUpdate)

(* Properties of the drain, checked under SpecDrain *)

\* the particle count never increases
DrainNeverGrows == [][Len(particles') <= Len(particles)]_vars

\* a particle that started with life L is gone by the ceil(L/dt)-th update:
\* one that is still there after frame updates has frame * dt < L
GoneByDeadline ==
  \A i \in 1..Len(particles) :
    frame * last.dt < start[particles[i].size \div FIX].life

\* C19: with no emitters or only disabled emitters and a constant dt > 0,
\* the particle count never increases, every particle with life L is
\* removed no later than the ceil(L/dt)-th update, and the population
\* eventually becomes empty and stays empty.
DrainsToEmpty ==
  /\ DrainNeverGrows
  /\ []GoneByDeadline
  /\ <>[](particles = <<>>)

\* a population whose dt is not lost in the subtraction drains
ShortLivesDrain ==
  (\A i \in 1..Len(start) : start[i].life <= F(1)) => <>[](particles = <<>>)

====
